---------------------------- MODULE Spec2Model ----------------------------
(***************************************************************************)
(* A model of pyiso's ERCOT client (src/pyiso/ercot.py): the time          *)
(* normaliser utcify, the report locator/materialiser _request_report, the *)
(* generation reconciler get_generation and the load builder get_load.     *)
(*                                                                         *)
(* Time is counted in ticks (TicksPerHour ticks to the hour).  A naive     *)
(* local timestamp is a number of ticks since local midnight of the day of *)
(* the spring-forward transition; an absolute instant is a number of ticks *)
(* since 00:00 UTC of that day.  The calendar is shortened: the fall-back  *)
(* transition follows the spring-forward one after DstDays days.           *)
(***************************************************************************)
EXTENDS Integers, Sequences, FiniteSets, TLC

VARIABLES call, pc, result, requests, options, inv

vars == <<call, pc, result, requests, options, inv>>

(***************************************************************************)
(* Bounds of the model.                                                    *)
(***************************************************************************)
TicksPerHour == 2
DstDays == 1
MantissaBits == 3
MaxMW == 10
MaxWindRows == 2
MaxEntries == 2

(***************************************************************************)
(* The civil time zone US/Central (TZ_NAME).                               *)
(***************************************************************************)
HoursPerDay == 24
StdOffsetHours == 6
DstOffsetHours == 5
TransitionHour == 2

Hour == TicksPerHour
Day == HoursPerDay * TicksPerHour

\* local wall-clock reading (standard time) at which the clocks spring forward
SpringLocal == TransitionHour * Hour
\* local wall-clock reading (daylight time) at which the clocks fall back
FallLocal == DstDays * Day + TransitionHour * Hour

SpringUTC == SpringLocal + StdOffsetHours * Hour
FallUTC == FallLocal + DstOffsetHours * Hour

\* whether daylight-saving time is in effect at the absolute instant u
InDST(u) == SpringUTC <= u /\ u < FallUTC

\* the offset (ticks to add to a local reading to get UTC) of each zone variant
OffsetOf(dst) == IF dst THEN DstOffsetHours * Hour ELSE StdOffsetHours * Hour

\* the zone variants under which the wall-clock reading ts names a real instant
PossibleDst(ts) == {d \in BOOLEAN : InDST(ts + OffsetOf(d)) = d}

\* tz.localize(ts, is_dst=...): a reading that exists once takes its only
\* variant; a repeated or a skipped reading takes the variant is_dst names
Localize(ts, is_dst) ==
    LET poss == PossibleDst(ts)
    IN  IF Cardinality(poss) = 1 THEN CHOOSE d \in poss : TRUE ELSE is_dst

\* BaseClient.utcify: localize in TZ_NAME, then convert to UTC
BaseUtcify(ts, is_dst) == ts + OffsetOf(Localize(ts, is_dst))

\* aware_utc.astimezone(US/Central), read as a naive wall-clock value
ToLocal(u) == u - OffsetOf(InDST(u))

\* ERCOTClient.utcify
utcify(local_ts, hour_ending, is_dst_arg) ==
    LET hour_beginning_ts == IF hour_ending THEN local_ts - Hour ELSE local_ts
    IN  BaseUtcify(hour_beginning_ts, is_dst_arg)

\* ERCOTClient.is_dst
is_dst(val, standard) == val # standard


(***************************************************************************)
(* Floating-point numbers: float() values are integers with a mantissa of  *)
(* MantissaBits bits, and every arithmetic result is rounded to the        *)
(* nearest such value, ties to the even mantissa.                          *)
(***************************************************************************)
RECURSIVE Pow2(_)
Pow2(n) == IF n = 0 THEN 1 ELSE 2 * Pow2(n - 1)

RECURSIVE UlpFrom(_, _)
UlpFrom(a, q) == IF a < Pow2(MantissaBits) * q THEN q ELSE UlpFrom(a, 2 * q)

\* the spacing of the floats around the magnitude a
Ulp(a) == UlpFrom(a, 1)

RoundMag(a) ==
    LET q  == Ulp(a)
        lo == (a \div q) * q
        hi == lo + q
    IN  IF a = lo THEN a
        ELSE IF 2 * (a - lo) < q THEN lo
        ELSE IF 2 * (a - lo) > q THEN hi
        ELSE IF (lo \div q) % 2 = 0 THEN lo ELSE hi

FRound(x) == IF x < 0 THEN 0 - RoundMag(0 - x) ELSE RoundMag(x)

Representable(v) == FRound(v) = v

\* total_gen - wind_gen on floats
FSub(a, b) == FRound(a - b)

\* a + b on floats
FAdd(a, b) == FRound(a + b)

(***************************************************************************)
(* Cells of a parsed CSV table.  A cell holds a number, a text, or nothing *)
(* (pandas reads an empty field as a null).                                *)
(***************************************************************************)
\* (a text is the tuple of its characters)
Num(n) == [k |-> "num", n |-> n, s |-> <<>>]
Text(s) == [k |-> "text", n |-> 0, s |-> s]
Null == [k |-> "null", n |-> 0, s |-> <<>>]

\* float(cell) succeeds on a number and raises ValueError on a text
Parseable(cell) == cell.k = "num"
FloatOf(cell) == cell.n

\* df.dropna(axis=0): the rows without a null cell, in their order
HasNull(row) == \E c \in DOMAIN row : row[c].k = "null"
dropna(rows) == SelectSeq(rows, LAMBDA r : ~HasNull(r))

(***************************************************************************)
(* Transport responses.  request() gives None, or a response that is       *)
(* truthy exactly when its status is ok.                                   *)
(***************************************************************************)
Truthy(r) == ~r.none /\ r.ok

base_report_url == <<"http://mis.ercot.com">>

report_type_ids ==
    [t \in {"wind_5min", "wind_hrly", "gen_hrly", "load_7day"} |->
        CASE t = "wind_5min" -> "13071"
          [] t = "wind_hrly" -> "13028"
          [] t = "gen_hrly"  -> "12358"
          [] t = "load_7day" -> "12311"]

IndexRequest(report_type) ==
    [url |-> base_report_url \o <<"/misapp/GetReports.do">>,
     params |-> <<"reportTypeId", report_type_ids[report_type]>>]

ArtifactRequest(endpoint) == [url |-> endpoint, params |-> <<>>]

csv == <<"c", "s", "v">>

\* 'csv' in label.string
Contains(label, pat) ==
    \E i \in 1..(Len(label) - Len(pat) + 1) :
        SubSeq(label, i, i + Len(pat) - 1) = pat

\* FindEndpoint without the break: the last qualifying row wins
RECURSIVE FindEndpointNoBreak(_, _)
FindEndpointNoBreak(listing, i) ==
    IF i > Len(listing) THEN <<>>
    ELSE LET later == FindEndpointNoBreak(listing, i + 1)
         IN  IF later # <<>> THEN later
             ELSE IF listing[i].labelled /\ Contains(listing[i].label, csv)
                  THEN base_report_url \o <<listing[i].href>>
                  ELSE <<>>

\* the loop over the listing's rows: the endpoint of the first row that has a
\* label containing 'csv', or <<>> (None) when the loop ends without a break
RECURSIVE FindEndpoint(_, _)
FindEndpoint(listing, i) ==
    IF i > Len(listing) THEN <<>>
    ELSE IF listing[i].labelled /\ Contains(listing[i].label, csv)
         THEN base_report_url \o <<listing[i].href>>
         ELSE FindEndpoint(listing, i + 1)

NoContext == [report |-> "", listing |-> <<>>]

Raised(err, about, reqs) ==
    [status |-> "raised", error |-> err, about |-> about,
     table |-> <<>>, requests |-> reqs]

Table(rows, reqs) ==
    [status |-> "returned", error |-> "", about |-> NoContext,
     table |-> rows, requests |-> reqs]

\* ERCOTClient._request_report
_request_report(report_type, index, artifact) ==
    LET first == <<IndexRequest(report_type)>>
        report_endpoint == FindEndpoint(index.listing, 1)
        both == first \o <<ArtifactRequest(report_endpoint)>>
    IN  IF index.none THEN Raised("AttributeError", NoContext, first)
        ELSE IF report_endpoint = <<>>
             THEN Raised("ValueError",
                         [report |-> report_type, listing |-> index.listing],
                         first)
        ELSE IF Truthy(artifact) THEN Table(dropna(artifact.rows), both)
        ELSE Table(<<>>, both)


(***************************************************************************)
(* Outcomes of the public operations: the data returned or the exception   *)
(* raised, the requests issued on the way, and whether the wind-data error *)
(* was logged.                                                             *)
(***************************************************************************)
NAME == "ERCOT"

Return(data, reqs, logged) ==
    [status |-> "returned", error |-> "", about |-> NoContext, data |-> data,
     requests |-> reqs, logged |-> logged]

Fail(err, about, reqs) ==
    [status |-> "raised", error |-> err, about |-> about, data |-> <<>>,
     requests |-> reqs, logged |-> FALSE]

\* raw_ts.replace(minute=0, second=0, microsecond=0)
ts_hour_rounded_down(raw_ts) == raw_ts - (raw_ts % Hour)

NoWind == [found |-> FALSE, wind_gen |-> 0, logged |-> FALSE]

\* ScanWind without the break: the last matching row decides
RECURSIVE ScanWindNoBreak(_, _, _)
ScanWindNoBreak(wind_df, target, i) ==
    IF i > Len(wind_df) THEN NoWind
    ELSE LET wind_dp == wind_df[i]
             wind_ts == utcify(wind_dp.HOUR_BEGINNING.n, FALSE,
                               is_dst(wind_dp.DSTFlag.s, <<"N">>))
             later == ScanWindNoBreak(wind_df, target, i + 1)
         IN  IF later.found \/ later.logged \/ wind_ts # target THEN later
             ELSE IF Parseable(wind_dp.ACTUAL_SYSTEM_WIDE)
                  THEN [found |-> TRUE,
                        wind_gen |-> FloatOf(wind_dp.ACTUAL_SYSTEM_WIDE),
                        logged |-> FALSE]
                  ELSE [found |-> FALSE, wind_gen |-> 0, logged |-> TRUE]

\* the loop over wind_df.iterrows(), from row i on: wind_gen (found is FALSE
\* for None) and whether the error was logged
RECURSIVE ScanWind(_, _, _)
ScanWind(wind_df, target, i) ==
    IF i > Len(wind_df) THEN NoWind
    ELSE LET wind_dp == wind_df[i]
             wind_ts == utcify(wind_dp.HOUR_BEGINNING.n, FALSE,
                               is_dst(wind_dp.DSTFlag.s, <<"N">>))
         IN  IF wind_ts = target
             THEN IF Parseable(wind_dp.ACTUAL_SYSTEM_WIDE)
                  THEN [found |-> TRUE,
                        wind_gen |-> FloatOf(wind_dp.ACTUAL_SYSTEM_WIDE),
                        logged |-> FALSE]
                  ELSE [found |-> FALSE, wind_gen |-> 0, logged |-> TRUE]
             ELSE ScanWind(wind_df, target, i + 1)

GenPoint(ts, gen_MW, fuel_name) ==
    [timestamp |-> ts, freq |-> "hourly", market |-> "hourly",
     gen_MW |-> gen_MW, ba_name |-> NAME, fuel_name |-> fuel_name]

\* parsed_data that publishes the total as nonwind when wind_gen is None
parsed_data_partial(wind, total_gen, ts) ==
    IF wind.found
    THEN <<GenPoint(ts, wind.wind_gen, "wind"),
           GenPoint(ts, FSub(total_gen, wind.wind_gen), "nonwind")>>
    ELSE <<GenPoint(ts, total_gen, "nonwind")>>

\* parsed_data that forgets the subtraction
parsed_data_total(wind, total_gen, ts) ==
    IF wind.found
    THEN <<GenPoint(ts, wind.wind_gen, "wind"), GenPoint(ts, total_gen, "nonwind")>>
    ELSE <<>>

\* the collection of parsed_data from wind_gen and total_gen
parsed_data(wind, total_gen, ts) ==
    IF wind.found
    THEN LET nonwind_gen == FSub(total_gen, wind.wind_gen)
         IN  <<GenPoint(ts, wind.wind_gen, "wind"),
               GenPoint(ts, nonwind_gen, "nonwind")>>
    ELSE <<>>

\* the join key of get_generation for the snapshot row total_dp
TargetHour(total_dp) ==
    ts_hour_rounded_down(
        utcify(total_dp.SE_EXE_TIME.n, TRUE,
               is_dst(total_dp.SE_EXE_TIME_DST.s, <<"s">>)))

\* ERCOTClient.get_generation on the transport responses of a
GenerationAfterTotal(a, gen) ==
    LET total_dp == gen.table[1]
        total_gen == FloatOf(total_dp.SE_MW)
        target == TargetHour(total_dp)
        wind == _request_report("wind_hrly", a.windIndex, a.windArtifact)
        reqs == gen.requests \o wind.requests
    IN  IF wind.status = "raised" THEN Fail(wind.error, wind.about, reqs)
        ELSE LET scan == ScanWind(wind.table, target, 1)
             IN  Return(parsed_data(scan, total_gen, target), reqs, scan.logged)

get_generation(a) ==
    LET gen == _request_report("gen_hrly", a.genIndex, a.genArtifact)
    IN  IF gen.status = "raised" THEN Fail(gen.error, gen.about, gen.requests)
        ELSE IF gen.table = <<>> THEN Fail("IndexError", NoContext, gen.requests)
        ELSE IF ~Parseable(gen.table[1].SE_MW)
             THEN Fail("ValueError", NoContext, gen.requests)
        ELSE GenerationAfterTotal(a, gen)


(***************************************************************************)
(* Load.  self.options is the one field of the client that get_load        *)
(* writes (through handle_options) and reads back.                         *)
(***************************************************************************)
Absent == "<absent>"

EmptyOptions ==
    [data |-> Absent, latest |-> FALSE, forecast |-> FALSE,
     market |-> Absent, freq |-> Absent, window |-> <<>>]

\* BaseClient.handle_options(data='load', latest=latest, **kwargs): the
\* options as the caller selected them
handle_options(kwargs) == [kwargs EXCEPT !.data = "load"]

StatusPageRequest ==
    [url |-> <<"http://www.ercot.com/content/cdr/html/real_time_system_conditions.html">>,
     params |-> <<>>]

\* options.get(key, default)
GetOption(value, default) == IF value = Absent THEN default ELSE value

\* ERCOTClient.parse_rtm_load on the page content; opts_market and opts_freq
\* are self.options as read for the market and for the freq of the point
parse_rtm_load(content, opts_market, opts_freq, reqs) ==
    IF ~content.demand_label THEN Fail("AttributeError", NoContext, reqs)
    ELSE IF ~Parseable(content.demand) THEN Fail("ValueError", NoContext, reqs)
    ELSE IF ~content.updated_label THEN Fail("AttributeError", NoContext, reqs)
    ELSE Return(<<[timestamp |-> utcify(content.updated, FALSE, FALSE),
                   ba_name |-> NAME,
                   market |-> GetOption(opts_market.market, "fivemin"),
                   freq |-> GetOption(opts_freq.freq, "fivemin"),
                   load_MW |-> FloatOf(content.demand)]>>,
                reqs, FALSE)

Digit ==
    [c \in {"0", "1", "2", "3", "4", "5", "6", "7", "8", "9"} |->
        CASE c = "0" -> 0 [] c = "1" -> 1 [] c = "2" -> 2 [] c = "3" -> 3
          [] c = "4" -> 4 [] c = "5" -> 5 [] c = "6" -> 6 [] c = "7" -> 7
          [] c = "8" -> 8 [] c = "9" -> 9]

\* s.split(':')[0]
RECURSIVE SplitHead(_)
SplitHead(s) ==
    IF s = <<>> \/ Head(s) = ":" THEN <<>> ELSE <<Head(s)>> \o SplitHead(Tail(s))

\* int(s) on a text of decimal digits
RECURSIVE IntOf(_)
IntOf(s) ==
    IF s = <<>> THEN 0 ELSE 10 * IntOf(SubSeq(s, 1, Len(s) - 1)) + Digit[s[Len(s)]]

\* the HourBeginning column: int(dp['HourEnding'].split(':')[0]) - 1
HourBeginning(dp) == IntOf(SplitHead(dp.HourEnding.s)) - 1

\* the index of the forecast frame: the row's delivery date and hour of the
\* day, normalised as hour-beginning with the row's own DST flag
ForecastTimestamp(dp) ==
    utcify(dp.DeliveryDate.n * Day + HourBeginning(dp) * Hour, FALSE,
           is_dst(dp.DSTFlag.s, <<"N">>))

ForecastPoint(dp) ==
    [timestamp |-> ForecastTimestamp(dp), ba_name |-> NAME, market |-> "dam",
     freq |-> "hourly", load_MW |-> FloatOf(dp.SystemTotal)]

\* the forecast branch up to the indexed frame; an empty table has none of
\* the columns the branch reads, and the branch raises
ForecastFrame(a) ==
    LET rep == _request_report("load_7day", a.index, a.artifact)
    IN  IF rep.status = "raised" THEN Fail(rep.error, rep.about, rep.requests)
        ELSE IF rep.table = <<>> THEN Fail("Exception", NoContext, rep.requests)
        ELSE Return([i \in 1..Len(rep.table) |-> ForecastPoint(rep.table[i])],
                    rep.requests, FALSE)

\* BaseClient.slice_times: the points inside the requested window, if any
slice_times(points, opts) ==
    IF opts.window = <<>> THEN points
    ELSE SelectSeq(points, LAMBDA dp : /\ opts.window[1] <= dp.timestamp
                                       /\ dp.timestamp <= opts.window[2])

\* the forecast branch from slice_times on
ForecastSliced(frame, opts) ==
    IF frame.status = "raised" THEN frame
    ELSE [frame EXCEPT !.data = slice_times(frame.data, opts)]

\* LoadMode with the forecast branch as the default
LoadModeDefaultForecast(latest, forecast) ==
    IF latest THEN "latest" ELSE "forecast"

\* the mode get_load runs for the stored options
LoadMode(latest, forecast) ==
    IF latest THEN "latest" ELSE IF forecast THEN "forecast" ELSE "error"

\* ERCOTClient.get_load, run without interruption
get_load(a) ==
    LET opts == handle_options(a.kwargs)
        mode == LoadMode(opts.latest, opts.forecast)
    IN  CASE mode = "latest" ->
               IF a.page.none
               THEN Fail("AttributeError", NoContext, <<StatusPageRequest>>)
               ELSE parse_rtm_load(a.page.content, opts, opts,
                                   <<StatusPageRequest>>)
          [] mode = "forecast" -> ForecastSliced(ForecastFrame(a), opts)
          [] OTHER -> Fail("ValueError", NoContext, <<>>)


(***************************************************************************)
(* The inputs: the arguments of a call and the responses the transport     *)
(* gives to the requests the call makes.                                   *)
(***************************************************************************)
LocalStamps == 0..(FallLocal + 2 * Hour)

UtcifyCalls ==
    [op : {"utcify"},
     a : [local_ts : LocalStamps, hour_ending : BOOLEAN, is_dst : BOOLEAN]]

Labels == {<<"x", "m", "l">>, csv, <<"C", "S", "V">>, <<"a", "_", "c", "s", "v">>}
Hrefs == {"/a.zip", "/b.zip"}

\* a row of the listing: with a label cell, or without one (whatever its text)
Entries ==
    [labelled : {TRUE}, label : Labels, href : Hrefs]
        \cup [labelled : {FALSE}, label : {csv}, href : Hrefs]

Listings == UNION {[1..n -> Entries] : n \in 0..MaxEntries}

NoIndex == [none |-> TRUE, ok |-> FALSE, listing |-> <<>>]
IndexResponses == {NoIndex} \cup [none : {FALSE}, ok : BOOLEAN, listing : Listings]

GoodIndex ==
    [none |-> FALSE, ok |-> TRUE,
     listing |-> <<[labelled |-> TRUE, label |-> csv, href |-> "/a.zip"]>>]
NoCsvIndex ==
    [none |-> FALSE, ok |-> TRUE,
     listing |-> <<[labelled |-> TRUE, label |-> <<"x", "m", "l">>, href |-> "/a.zip"]>>]

NoArtifact == [none |-> TRUE, ok |-> FALSE, rows |-> <<>>]

Junk == Text(<<" ">>)

WindHours == {FallLocal - 2 * Hour, FallLocal - Hour}
WindValues == {v \in {1, 4} : Representable(v)}
WindRows ==
    [HOUR_BEGINNING : {Num(h) : h \in WindHours},
     DSTFlag : {Text(<<"N">>), Text(<<"Y">>)},
     ACTUAL_SYSTEM_WIDE : {Null, Junk} \cup {Num(v) : v \in WindValues}]
WindTables == UNION {[1..n -> WindRows] : n \in 0..MaxWindRows}
WindArtifacts ==
    {NoArtifact} \cup [none : {FALSE}, ok : {TRUE}, rows : WindTables]

GenStamps == {FallLocal - Hour, FallLocal - Hour + 1, FallLocal}
TotalValues == {v \in {MaxMW, 4} : Representable(v)}
GenRows ==
    [SE_MW : {Junk} \cup {Num(v) : v \in TotalValues},
     SE_EXE_TIME : {Num(t) : t \in GenStamps},
     SE_EXE_TIME_DST : {Text(<<"s">>), Text(<<"d">>)}]
GenRowA ==
    [SE_MW |-> Num(4), SE_EXE_TIME |-> Num(FallLocal),
     SE_EXE_TIME_DST |-> Text(<<"s">>)]
GenRowB ==
    [SE_MW |-> Num(MaxMW), SE_EXE_TIME |-> Num(FallLocal - Hour),
     SE_EXE_TIME_DST |-> Text(<<"d">>)]
GenRowNull == [GenRowA EXCEPT !.SE_MW = Null]
GenTables ==
    {<<r>> : r \in GenRows}
        \cup {<<>>, <<GenRowNull>>, <<GenRowNull, GenRowB>>, <<GenRowA, GenRowB>>}
GenArtifacts ==
    {NoArtifact, [none |-> FALSE, ok |-> FALSE, rows |-> <<GenRowA>>]}
        \cup [none : {FALSE}, ok : {TRUE}, rows : GenTables]

BadIndexes == {NoIndex, NoCsvIndex}

GenerationCalls ==
    [op : {"get_generation"},
     a : [genIndex : {GoodIndex}, genArtifact : GenArtifacts,
          windIndex : {GoodIndex}, windArtifact : WindArtifacts]
         \cup [genIndex : BadIndexes \cup {GoodIndex},
               genArtifact : {[none |-> FALSE, ok |-> TRUE, rows |-> <<GenRowA>>]},
               windIndex : BadIndexes,
               windArtifact : {NoArtifact}]
         \cup [genIndex : BadIndexes,
               genArtifact : {NoArtifact},
               windIndex : {GoodIndex},
               windArtifact : {NoArtifact}]]

WindRowFull ==
    [HOUR_BEGINNING |-> Num(FallLocal - Hour), DSTFlag |-> Text(<<"N">>),
     ACTUAL_SYSTEM_WIDE |-> Num(1)]
ReportTables ==
    {<<>>, <<WindRowFull>>,
     <<[WindRowFull EXCEPT !.ACTUAL_SYSTEM_WIDE = Null], WindRowFull>>,
     <<WindRowFull, [WindRowFull EXCEPT !.DSTFlag = Null]>>}
ReportArtifacts ==
    {NoArtifact} \cup [none : {FALSE}, ok : BOOLEAN, rows : ReportTables]

ReportCalls ==
    [op : {"_request_report"},
     a : [report_type : {"wind_hrly"}, index : IndexResponses,
          artifact : ReportArtifacts]]

Kwargs ==
    [data : {Absent}, latest : BOOLEAN, forecast : BOOLEAN,
     market : {Absent, "dam"}, freq : {Absent, "hourly"},
     window : {<<>>, <<FallUTC, FallUTC + Hour>>}]

NoPage ==
    [none |-> TRUE, ok |-> FALSE,
     content |-> [demand_label |-> FALSE, demand |-> Null,
                  updated_label |-> FALSE, updated |-> 0]]
Pages ==
    {NoPage}
        \cup [none : {FALSE}, ok : {TRUE},
              content : [demand_label : BOOLEAN, demand : {Num(4), Junk},
                         updated_label : BOOLEAN, updated : {FallLocal - Hour}]]

GoodPage ==
    [none |-> FALSE, ok |-> TRUE,
     content |-> [demand_label |-> TRUE, demand |-> Num(4),
                  updated_label |-> TRUE, updated |-> FallLocal - Hour]]

ForecastRows ==
    [DeliveryDate : {Num(DstDays)},
     HourEnding : {Text(<<"0", "2", ":", "0", "0">>), Text(<<"1", "4", ":", "0", "0">>)},
     DSTFlag : {Text(<<"N">>), Text(<<"Y">>)},
     SystemTotal : {Num(4)}]
ForecastRowA ==
    [DeliveryDate |-> Num(DstDays), HourEnding |-> Text(<<"0", "2", ":", "0", "0">>),
     DSTFlag |-> Text(<<"N">>), SystemTotal |-> Num(4)]
ForecastRowB ==
    [DeliveryDate |-> Num(DstDays), HourEnding |-> Text(<<"0", "3", ":", "0", "0">>),
     DSTFlag |-> Text(<<"N">>), SystemTotal |-> Num(1)]
ForecastArtifacts ==
    {NoArtifact,
     [none |-> FALSE, ok |-> TRUE, rows |-> <<ForecastRowA, ForecastRowB>>]}
        \cup {[none |-> FALSE, ok |-> TRUE, rows |-> <<r>>] : r \in ForecastRows}

LoadCalls ==
    [op : {"get_load"},
     a : [kwargs : Kwargs, page : {NoPage, GoodPage},
          index : {GoodIndex, NoCsvIndex}, artifact : ForecastArtifacts]
         \cup [kwargs : {k \in Kwargs : k.market = Absent /\ k.window = <<>>},
               page : Pages, index : {NoIndex},
               artifact : {NoArtifact}]]

Calls == UtcifyCalls \cup ReportCalls \cup GenerationCalls \cup LoadCalls

Threads == {1, 2}

NoResult == [status |-> "none"]
Idle == [op |-> "none", pc |-> "done"]

\* what an operation hands back to its caller (the requests it issued are
\* kept in the request log)
Outcome(r) == [f \in DOMAIN r \ {"requests"} |-> r[f]]

(***************************************************************************)
(* One call on a fresh client, run from start to end.                      *)
(***************************************************************************)
Init ==
    /\ call \in Calls
    /\ pc = "ready"
    /\ result = NoResult
    /\ requests = <<>>
    /\ options = EmptyOptions
    /\ inv = [t \in Threads |-> Idle]

DoUtcify ==
    /\ pc = "ready" /\ call.op = "utcify"
    /\ result' = [status |-> "returned",
                  value |-> utcify(call.a.local_ts, call.a.hour_ending,
                                   call.a.is_dst)]
    /\ pc' = "done"
    /\ UNCHANGED <<call, requests, options, inv>>

DoRequestReport ==
    /\ pc = "ready" /\ call.op = "_request_report"
    /\ LET r == _request_report(call.a.report_type, call.a.index, call.a.artifact)
       IN  /\ result' = Outcome(r)
           /\ requests' = r.requests
    /\ pc' = "done"
    /\ UNCHANGED <<call, options, inv>>

DoGetGeneration ==
    /\ pc = "ready" /\ call.op = "get_generation"
    /\ LET r == get_generation(call.a)
       IN  /\ result' = Outcome(r)
           /\ requests' = r.requests
    /\ pc' = "done"
    /\ UNCHANGED <<call, options, inv>>

DoGetLoad ==
    /\ pc = "ready" /\ call.op = "get_load"
    /\ LET r == get_load(call.a)
       IN  /\ result' = Outcome(r)
           /\ requests' = r.requests
    /\ options' = handle_options(call.a.kwargs)
    /\ pc' = "done"
    /\ UNCHANGED <<call, inv>>

Next == DoUtcify \/ DoRequestReport \/ DoGetGeneration \/ DoGetLoad

Spec == Init /\ [][Next]_vars


(***************************************************************************)
(* Two calls on one client, interleaved.  A call of get_load is split at   *)
(* its accesses to self.options: the store by handle_options, the reads    *)
(* that select the mode, the reads of market and freq in parse_rtm_load,   *)
(* and the read of the window in slice_times.  get_generation touches no   *)
(* field of the client and runs in one step.                               *)
(***************************************************************************)
GoodForecast ==
    [none |-> FALSE, ok |-> TRUE, rows |-> <<ForecastRowA, ForecastRowB>>]

GenArgsA ==
    [genIndex |-> GoodIndex,
     genArtifact |-> [none |-> FALSE, ok |-> TRUE, rows |-> <<GenRowA>>],
     windIndex |-> GoodIndex,
     windArtifact |-> [none |-> FALSE, ok |-> TRUE, rows |-> <<WindRowFull>>]]

Invocations ==
    [op : {"get_load"},
     a : [kwargs : Kwargs, page : {GoodPage}, index : {GoodIndex},
          artifact : {GoodForecast}]]
        \cup [op : {"get_generation"},
              a : {GenArgsA, [GenArgsA EXCEPT !.windArtifact = NoArtifact]}]

NoOutcome == Fail("", NoContext, <<>>)

Started(i) ==
    [op |-> i.op, a |-> i.a, pc |-> "start", frame |-> NoOutcome,
     seen |-> EmptyOptions, out |-> NoOutcome]

InitConc ==
    /\ call = [op |-> "none"]
    /\ pc = "idle"
    /\ result = NoResult
    /\ requests = <<>>
    /\ options = EmptyOptions
    /\ inv \in [Threads -> {Started(i) : i \in Invocations}]

At(t, op, where) == inv[t].op = op /\ inv[t].pc = where

Goto(t, where) == inv' = [inv EXCEPT ![t].pc = where]

Finish(t, out) == inv' = [inv EXCEPT ![t].pc = "done", ![t].out = out]

\* self.handle_options(data='load', latest=latest, **kwargs)
StoreOptions(t) ==
    /\ At(t, "get_load", "start")
    /\ options' = handle_options(inv[t].a.kwargs)
    /\ Goto(t, "select")
    /\ UNCHANGED <<call, pc, result, requests>>

\* if self.options['latest']:
SelectLatest(t) ==
    /\ At(t, "get_load", "select")
    /\ IF options.latest THEN Goto(t, "latest") ELSE Goto(t, "select_forecast")
    /\ UNCHANGED <<call, pc, result, requests, options>>

\* elif self.options['forecast']: ... else: raise ValueError
SelectForecast(t) ==
    /\ At(t, "get_load", "select_forecast")
    /\ IF options.forecast THEN Goto(t, "forecast")
       ELSE Finish(t, Fail("ValueError", NoContext, <<>>))
    /\ UNCHANGED <<call, pc, result, requests, options>>

\* the request of the status page and parse_rtm_load up to the point
LatestFetch(t) ==
    /\ At(t, "get_load", "latest")
    /\ LET a == inv[t].a
           parsed == IF a.page.none
                     THEN Fail("AttributeError", NoContext, <<StatusPageRequest>>)
                     ELSE parse_rtm_load(a.page.content, EmptyOptions,
                                         EmptyOptions, <<StatusPageRequest>>)
       IN  IF parsed.status = "raised" THEN Finish(t, parsed)
           ELSE Goto(t, "read_market")
    /\ UNCHANGED <<call, pc, result, requests, options>>

\* 'market': self.options.get('market', ...)
ReadMarket(t) ==
    /\ At(t, "get_load", "read_market")
    /\ inv' = [inv EXCEPT ![t].pc = "read_freq", ![t].seen = options]
    /\ UNCHANGED <<call, pc, result, requests, options>>

\* 'freq': self.options.get('freq', ...), and the return of [dp]
ReadFreq(t) ==
    /\ At(t, "get_load", "read_freq")
    /\ Finish(t, parse_rtm_load(inv[t].a.page.content, inv[t].seen, options,
                                <<StatusPageRequest>>))
    /\ UNCHANGED <<call, pc, result, requests, options>>

\* the forecast branch up to slice_times
ForecastFetch(t) ==
    /\ At(t, "get_load", "forecast")
    /\ LET frame == ForecastFrame(inv[t].a)
       IN  IF frame.status = "raised" THEN Finish(t, frame)
           ELSE inv' = [inv EXCEPT ![t].pc = "slice", ![t].frame = frame]
    /\ UNCHANGED <<call, pc, result, requests, options>>

\* self.slice_times(df), which reads self.options, and the serialisation
SliceForecast(t) ==
    /\ At(t, "get_load", "slice")
    /\ Finish(t, ForecastSliced(inv[t].frame, options))
    /\ UNCHANGED <<call, pc, result, requests, options>>

RunGeneration(t) ==
    /\ At(t, "get_generation", "start")
    /\ Finish(t, get_generation(inv[t].a))
    /\ UNCHANGED <<call, pc, result, requests, options>>

NextConc ==
    \E t \in Threads :
        \/ StoreOptions(t)
        \/ SelectLatest(t)
        \/ SelectForecast(t)
        \/ LatestFetch(t)
        \/ ReadMarket(t)
        \/ ReadFreq(t)
        \/ ForecastFetch(t)
        \/ SliceForecast(t)
        \/ RunGeneration(t)

SpecConc == InitConc /\ [][NextConc]_vars

(***************************************************************************)
(* Properties of one call.                                                 *)
(***************************************************************************)
Done(op) == pc = "done" /\ call.op = op

Min(S) == CHOOSE x \in S : \A y \in S : x <= y

\* the reports get_generation works on, as _request_report hands them over
GenReport == _request_report("gen_hrly", call.a.genIndex, call.a.genArtifact)
WindReport == _request_report("wind_hrly", call.a.windIndex, call.a.windArtifact)

\* the call got as far as the scan of the wind report
ReachedScan ==
    /\ Done("get_generation")
    /\ GenReport.status = "returned"
    /\ GenReport.table # <<>>
    /\ GenReport.table[1].SE_MW.k = "num"
    /\ WindReport.status = "returned"

SnapshotTotal == GenReport.table[1].SE_MW.n

\* the snapshot's timestamp, normalised as hour-ending
SnapshotInstant ==
    utcify(GenReport.table[1].SE_EXE_TIME.n, TRUE,
           GenReport.table[1].SE_EXE_TIME_DST.s # <<"s">>)

\* the top of the hour the instant u lies in
TopOfHour(u) == CHOOSE t \in (u - Hour + 1)..u : t % Hour = 0

\* the rows of the table rows whose hour, normalised as hour-beginning with
\* the row's own DST flag, is the instant t
RowsAt(rows, t) ==
    {i \in 1..Len(rows) :
        utcify(rows[i].HOUR_BEGINNING.n, FALSE, rows[i].DSTFlag.s # <<"N">>) = t}

\* the wall-clock reading local_ts exists in the zone variant the flag names
ValidLocal(local_ts, dst) == InDST(local_ts + OffsetOf(dst)) = dst

\* C6: utcify with hour_ending=True returns the instant exactly one hour
\* before the one utcify returns for the same local timestamp and DST flag
\* with hour_ending=False (stated here for the timestamps that exist under
\* their flag, which are among those the claim covers).
HourEndingIsOneHourEarlier ==
    (Done("utcify") /\ call.a.hour_ending
        /\ ValidLocal(call.a.local_ts, call.a.is_dst))
        => result.value = utcify(call.a.local_ts, FALSE, call.a.is_dst) - Hour

\* C7: for a valid input, the instant utcify returns, converted back to local
\* civil time, with the hour added back under the hour-ending convention, is
\* the original local timestamp.
NormalizeRoundTrip ==
    (Done("utcify") /\ ValidLocal(call.a.local_ts, call.a.is_dst))
        => ToLocal(result.value) + (IF call.a.hour_ending THEN Hour ELSE 0)
               = call.a.local_ts

\* the sequence is a wind point and a nonwind point at the join key
IsFuelPair(data) ==
    /\ Len(data) = 2
    /\ data[1].fuel_name = "wind" /\ data[2].fuel_name = "nonwind"
    /\ \A i \in 1..2 : /\ data[i].timestamp = TopOfHour(SnapshotInstant)
                       /\ data[i].freq = "hourly"
                       /\ data[i].market = "hourly"

\* C1 as stated: get_generation returns nothing or a wind/nonwind pair whose
\* gen_MW values sum to the snapshot's total_gen.
GenerationPairSumsToTotal ==
    (Done("get_generation") /\ result.status = "returned")
        => \/ result.data = <<>>
           \/ /\ IsFuelPair(result.data)
              /\ FAdd(result.data[1].gen_MW, result.data[2].gen_MW) = SnapshotTotal

\* C1 as amended: get_generation returns nothing or a wind/nonwind pair at
\* the join key, hourly, whose nonwind gen_MW is the floating-point
\* difference of the snapshot's total_gen and the wind gen_MW.
GenerationPairIsDifference ==
    (Done("get_generation") /\ result.status = "returned")
        => \/ result.data = <<>>
           \/ /\ IsFuelPair(result.data)
              /\ result.data[2].gen_MW
                     = FRound(SnapshotTotal - result.data[1].gen_MW)

GenerationPairReturned ==
    /\ Done("get_generation")
    /\ result.status = "returned"
    /\ Len(result.data) = 2
    /\ result.data[1].gen_MW > 0
    /\ result.data[2].gen_MW > 0

\* C2: when no row of the wind table matches the join key, or the matching
\* row's wind field does not parse, get_generation returns the empty
\* sequence and raises nothing; it logs exactly when the field did not parse.
WindUnavailableReturnsEmpty ==
    ReachedScan =>
        LET at == RowsAt(WindReport.table, TopOfHour(SnapshotInstant))
            blank == at # {} /\ WindReport.table[Min(at)].ACTUAL_SYSTEM_WIDE.k # "num"
        IN  (at = {} \/ blank)
                => /\ result.status = "returned"
                   /\ result.data = <<>>
                   /\ result.logged = blank

WindFieldUnparseable ==
    /\ ReachedScan
    /\ LET at == RowsAt(WindReport.table, TopOfHour(SnapshotInstant))
       IN  /\ Cardinality(at) = 2
           /\ WindReport.table[1].ACTUAL_SYSTEM_WIDE.k = "text"
           /\ WindReport.table[2].ACTUAL_SYSTEM_WIDE.k = "num"
    /\ result.data = <<>>

\* C3: when the first row of the published wind report at the join key has a
\* blank or unparseable wind field, no later row is used and the output is
\* empty.
BlankFirstMatchEndsScan ==
    (ReachedScan /\ Truthy(call.a.windArtifact))
        => LET at == RowsAt(call.a.windArtifact.rows, TopOfHour(SnapshotInstant))
           IN  (at # {} /\ call.a.windArtifact.rows[Min(at)].ACTUAL_SYSTEM_WIDE.k # "num")
                   => result.data = <<>>

\* the label holds the letters c, s, v in a row
HasCsv(label) ==
    \E i \in 1..Len(label) :
        /\ i + 2 <= Len(label)
        /\ label[i] = "c" /\ label[i + 1] = "s" /\ label[i + 2] = "v"

CsvEntries(listing) ==
    {i \in 1..Len(listing) : listing[i].labelled /\ HasCsv(listing[i].label)}

\* C4: _request_report downloads the link of the first labelled entry whose
\* label contains 'csv'; without such an entry it raises the report-not-found
\* error with the report id and the listing, having issued the index request
\* once and no download request.
LocateFirstCsvEntry ==
    (Done("_request_report") /\ ~call.a.index.none)
        => LET listing == call.a.index.listing
               found == CsvEntries(listing)
           IN  IF found = {}
               THEN /\ result.status = "raised"
                    /\ result.error = "ValueError"
                    /\ result.about = [report |-> call.a.report_type,
                                       listing |-> listing]
                    /\ requests = <<IndexRequest(call.a.report_type)>>
               ELSE /\ result.status = "returned"
                    /\ requests =
                         <<IndexRequest(call.a.report_type),
                           ArtifactRequest(base_report_url
                                               \o <<listing[Min(found)].href>>)>>

LaterCsvEntryIgnored ==
    /\ Done("_request_report")
    /\ ~call.a.index.none
    /\ LET listing == call.a.index.listing
       IN  /\ CsvEntries(listing) = {2}
           /\ ~listing[1].labelled
           /\ listing[1].href # listing[2].href
    /\ Len(requests) = 2

\* C5: a falsy transport response never makes a call raise: _request_report
\* returns an empty table, and get_generation and get_load in forecast mode
\* return an empty result.
FalsyResponseGivesEmptyResult ==
    /\ (Done("_request_report") /\ call.a.index = GoodIndex /\ ~Truthy(call.a.artifact))
           => (result.status = "returned" /\ result.table = <<>>)
    /\ (Done("get_generation")
            /\ \/ ~Truthy(call.a.genIndex)
               \/ call.a.genIndex = GoodIndex /\ ~Truthy(call.a.genArtifact)
               \/ ReachedScan /\ ~Truthy(call.a.windArtifact))
           => (result.status = "returned" /\ result.data = <<>>)
    /\ (Done("get_load") /\ ~call.a.kwargs.latest /\ call.a.kwargs.forecast
            /\ \/ ~Truthy(call.a.index)
               \/ call.a.index = GoodIndex /\ ~Truthy(call.a.artifact))
           => (result.status = "returned" /\ result.data = <<>>)

\* C8: get_load with neither latest nor forecast raises the invalid-request
\* error without data or requests; with latest it requests the status page
\* alone; with forecast and not latest it requests the load report and never
\* the status page.
LoadModesAreExclusive ==
    Done("get_load") =>
        LET kw == call.a.kwargs
        IN  /\ (~kw.latest /\ ~kw.forecast)
                   => /\ result.status = "raised"
                      /\ result.error = "ValueError"
                      /\ result.data = <<>>
                      /\ requests = <<>>
            /\ kw.latest => requests = <<StatusPageRequest>>
            /\ (~kw.latest /\ kw.forecast)
                   => /\ requests # <<>>
                      /\ requests[1] = IndexRequest("load_7day")
                      /\ \A i \in 1..Len(requests) : requests[i] # StatusPageRequest

LoadWithoutModeRaised ==
    /\ Done("get_load")
    /\ ~call.a.kwargs.latest /\ ~call.a.kwargs.forecast
    /\ result.status = "raised"

\* C10: the join key is the top of the hour of the snapshot's hour-ending
\* instant, and the wind value used is that of the first row of the wind
\* table whose hour-beginning instant is the join key, whatever the rows
\* before and after it hold.
JoinIsFirstMatchOnHour ==
    ReachedScan =>
        LET target == TopOfHour(SnapshotInstant)
            at == RowsAt(WindReport.table, target)
        IN  (at # {} /\ WindReport.table[Min(at)].ACTUAL_SYSTEM_WIDE.k = "num")
                => /\ result.status = "returned"
                   /\ Len(result.data) = 2
                   /\ result.data[1].timestamp = target
                   /\ result.data[1].gen_MW
                          = WindReport.table[Min(at)].ACTUAL_SYSTEM_WIDE.n

FirstOfTwoMatchesUsed ==
    /\ ReachedScan
    /\ SnapshotInstant # TopOfHour(SnapshotInstant)
    /\ LET at == RowsAt(WindReport.table, TopOfHour(SnapshotInstant))
       IN  /\ Cardinality(at) = 2
           /\ WindReport.table[1].ACTUAL_SYSTEM_WIDE.k = "num"
           /\ WindReport.table[2].ACTUAL_SYSTEM_WIDE.k = "num"
           /\ WindReport.table[1].ACTUAL_SYSTEM_WIDE.n
                  # WindReport.table[2].ACTUAL_SYSTEM_WIDE.n
    /\ Len(result.data) = 2


(***************************************************************************)
(* Properties of interleaved calls.                                        *)
(***************************************************************************)
\* what the call of thread t returns when it runs alone
Alone(t) ==
    IF inv[t].op = "get_load" THEN get_load(inv[t].a) ELSE get_generation(inv[t].a)

\* C9: whatever the interleaving of two calls on one client, each call
\* returns what it returns when run alone on the same transport responses.
CallsAreIndependent ==
    \A t \in Threads : inv[t].pc = "done" => inv[t].out = Alone(t)

=============================================================================
